---- MODULE Spec2Model ----
(***************************************************************************)
(* A model of the blockchain node of src/app.py: the Blockchain object     *)
(* (chain, pending transactions, peer set), the proof-of-work sealing of   *)
(* blocks, chain validation, and the longest-chain consensus, driven by    *)
(* the node's HTTP routes.                                                 *)
(*                                                                         *)
(* Strings of hex characters (digests, the "0" sentinel, strings a peer    *)
(* sends as a hash) are records [zeros, body]: body is the text that was   *)
(* digested (<<>> for a string that is no digest, which then is the string *)
(* of `zeros` characters "0"), zeros the number of leading "0" characters. *)
(* SHA-256 is taken as collision free: two digests are equal exactly when  *)
(* the digested texts are.                                                 *)
(***************************************************************************)
EXTENDS Integers, Sequences, FiniteSets, TLC

\* ------------------------------------------------------------------ bounds
MaxChain == 3       \* local mining stops once the chain holds this many blocks
MaxTx == 2          \* transactions accepted over a run
MaxPeerLen == 3     \* a peer's chain holds at most this many blocks
PowSpace == 3       \* one digest in PowSpace meets the difficulty target
MaxResolves == 1    \* /api/consensus requests served while other requests run
MaxNodeTx == 3      \* transactions accepted over a run of a node without peers

\* ------------------------------------------------------- program constants
difficulty == 4
mining_reward == 10

None == "None"
node_identifier == "node"

\* ------------------------------------------------------------- hex strings
Zeros(k) == [zeros |-> k, body |-> <<>>]
NoHash == [zeros |-> -1, body |-> <<>>]

\* to_dict with the object's identity in it.
to_dictWithId(tx) == <<tx.amount, tx.recipient, tx.sender, tx.timestamp, tx.id>>

\* Transaction.to_dict under json.dumps(sort_keys=True): amount, recipient,
\* sender, timestamp. The object's identity (id) is not part of it.
to_dict(tx) == <<tx.amount, tx.recipient, tx.sender, tx.timestamp>>

RECURSIVE EncodeTxs(_)
EncodeTxs(txs) ==
    IF txs = <<>> THEN <<>>
    ELSE <<to_dict(Head(txs))>> \o EncodeTxs(Tail(txs))

RECURSIVE SumAmounts(_)
SumAmounts(txs) ==
    IF txs = <<>> THEN 0 ELSE Head(txs).amount + SumAmounts(Tail(txs))

\* The text json.dumps(..., sort_keys=True) builds in calculate_hash: index,
\* nonce, previous_hash, timestamp, transactions.
block_string(index, txs, timestamp, previous_hash, nonce) ==
    <<index, nonce, previous_hash, timestamp, EncodeTxs(txs)>>

\* The number of leading "0" characters of the digest of a text: a fixed
\* function of every field that meets the target for one nonce in PowSpace.
LeadingZeros(index, txs, timestamp, previous_hash, nonce) ==
    LET m == (index + nonce + timestamp + previous_hash.zeros
              + Len(txs) + SumAmounts(txs)) % PowSpace
    IN  IF m = 0 THEN difficulty ELSE (m - 1) % difficulty

sha256(index, txs, timestamp, previous_hash, nonce) ==
    [zeros |-> LeadingZeros(index, txs, timestamp, previous_hash, nonce),
     body  |-> block_string(index, txs, timestamp, previous_hash, nonce)]

\* hash[:d] == "0" * d
HasPrefix(h, d) == h.zeros >= d

\* ------------------------------------------------------------------- state
VARIABLES
    chain,                 \* self.chain: the list of Block objects
    lists,                 \* the list objects made by "[]" at lines 80 and 123
    current_transactions,  \* self.current_transactions: a reference into lists
    nodes,                 \* self.nodes
    miner,                 \* per request thread: a /api/mine request in flight
    resolver,              \* a /api/consensus request in flight
    accepted,              \* the ids of the transactions add_transaction made
    clock,                 \* what the next call of time.time() returns
    last                   \* the last request served: route, inputs, answer

vars == <<chain, lists, current_transactions, nodes, miner, resolver,
          accepted, clock, last>>

\* ------------------------------------------------------------------ blocks
\* A Block object. transactions is a reference to a list object of the node
\* (ref > 0) or, for a block decoded from a peer's JSON, the list itself.
Ref(r) == [ref |-> r, val |-> <<>>]
Val(txs) == [ref |-> 0, val |-> txs]

Block(index, transactions, timestamp, previous_hash, nonce) ==
    [index |-> index, transactions |-> transactions, timestamp |-> timestamp,
     previous_hash |-> previous_hash, nonce |-> nonce, hash |-> NoHash]

TxList(b, ls) ==
    IF b.transactions.ref = 0 THEN b.transactions.val
    ELSE ls[b.transactions.ref]

calculate_hash(b, ls) ==
    sha256(b.index, TxList(b, ls), b.timestamp, b.previous_hash, b.nonce)

\* The hash property: the cached _hash, computed when it is None.
HashOf(b, ls) == IF b.hash = NoHash THEN calculate_hash(b, ls) ELSE b.hash
Cached(b, ls) == [b EXCEPT !.hash = HashOf(b, ls)]

Transaction(sender, recipient, amount, timestamp, id) ==
    [sender |-> sender, recipient |-> recipient, amount |-> amount,
     timestamp |-> timestamp, id |-> id]

create_genesis_block(t) ==
    LET g == Block(0, Val(<<>>), t, Zeros(1), 0)
    IN  [g EXCEPT !.hash = sha256(0, <<>>, t, Zeros(1), 0)]

get_latest_block(c) == c[Len(c)]

\* mine_block: the loop of lines 134-136 run to its end on a list that no one
\* else changes.
RECURSIVE mine_block(_, _)
mine_block(b, ls) ==
    IF HasPrefix(HashOf(b, ls), difficulty) THEN Cached(b, ls)
    ELSE mine_block([b EXCEPT !.nonce = @ + 1, !.hash = NoHash], ls)

\* Lines 147-161 without the test of lines 152-153.
BlockValidNoDigest(c, i, ls) ==
    /\ c[i].previous_hash = c[i - 1].hash
    /\ HasPrefix(c[i].hash, difficulty)

BlockValid(c, i, ls) ==
    /\ c[i].hash = calculate_hash(c[i], ls)
    /\ c[i].previous_hash = c[i - 1].hash
    /\ HasPrefix(c[i].hash, difficulty)

is_chain_valid(c, ls) == \A i \in 2..Len(c) : BlockValid(c, i, ls)

RECURSIVE BalanceTxs(_, _)
BalanceTxs(txs, address) ==
    IF txs = <<>> THEN 0
    ELSE (IF Head(txs).recipient = address THEN Head(txs).amount ELSE 0)
         - (IF Head(txs).sender = address THEN Head(txs).amount ELSE 0)
         + BalanceTxs(Tail(txs), address)

RECURSIVE BalanceBlocks(_, _, _)
BalanceBlocks(c, ls, address) ==
    IF c = <<>> THEN 0
    ELSE BalanceTxs(TxList(Head(c), ls), address)
         + BalanceBlocks(Tail(c), ls, address)

\* Lines 165-182 with the pending transactions counted as well.
get_balanceWithPending(address) ==
    BalanceBlocks(chain, lists, address)
    + BalanceTxs(lists[current_transactions], address)

get_balance(address) == BalanceBlocks(chain, lists, address)

\* ------------------------------------------------------------------- peers
\* What requests.get(.../api/chain) gives for one peer: an exception
\* ("timeout", "connection_error"), a response whose status is not 200
\* ("http_error"), or a 200 response with data['length'] and data['chain'].
\* A peer builds its chain with the code of this file and may then alter it,
\* and may report any length.
PeerTxs(flavour) ==
    <<Transaction("Mining Reward", "A", IF flavour = "alt" THEN 7 ELSE 5, 1, 0),
      Transaction(None, "peer", mining_reward, 1, 0)>>

PeerMined(index, flavour, previous_hash) ==
    mine_block(Block(index, Val(PeerTxs(flavour)), 1, previous_hash, 0), <<>>)

PeerGenesis(flavour) ==
    IF flavour = "genesis"
    THEN [create_genesis_block(1) EXCEPT !.hash = Zeros(difficulty)]
    ELSE create_genesis_block(1)

\* The last block of a peer's chain of n >= 2 blocks whose first n - 1 are c.
PeerLast(flavour, c) ==
    LET n == Len(c) + 1
        prev == c[Len(c)].hash
        good == PeerMined(n - 1, flavour, prev)
    IN  CASE flavour = "index" -> PeerMined(n + 3, flavour, prev)
          [] flavour = "hash"  -> [good EXCEPT !.hash = Zeros(difficulty)]
          [] flavour = "prev"  -> PeerMined(n - 1, flavour, Zeros(2))
          [] flavour = "nopow" ->
                Cached([good EXCEPT !.nonce = @ + 1, !.hash = NoHash], <<>>)
          [] OTHER -> good

RECURSIVE PeerPrefix(_, _)
PeerPrefix(flavour, n) ==
    IF n = 0 THEN <<>>
    ELSE IF n = 1 THEN <<PeerGenesis(flavour)>>
    ELSE LET c == PeerPrefix(flavour, n - 1)
         IN  Append(c, PeerMined(n - 1, flavour, c[n - 1].hash))

PeerChain(flavour, n) ==
    IF n < 2 THEN PeerPrefix(flavour, n)
    ELSE LET c == PeerPrefix(flavour, n - 1)
         IN  Append(c, PeerLast(flavour, c))

FlavourList == <<"honest", "alt", "genesis", "index", "hash", "prev", "nopow">>

\* Block.to_dict, and the 'chain' of the /api/chain answer.
TxDict(tx) == [tx EXCEPT !.id = 0]

RECURSIVE TxDicts(_)
TxDicts(txs) ==
    IF txs = <<>> THEN <<>> ELSE <<TxDict(Head(txs))>> \o TxDicts(Tail(txs))

BlockToDict(b, ls) ==
    [index |-> b.index, transactions |-> TxDicts(TxList(b, ls)),
     timestamp |-> b.timestamp, previous_hash |-> b.previous_hash,
     nonce |-> b.nonce, hash |-> HashOf(b, ls)]

ChainToJson(c, ls) == [i \in 1..Len(c) |-> BlockToDict(c[i], ls)]

FailureList == <<"timeout", "connection_error", "http_error">>
Failures == {FailureList[k] : k \in 1..Len(FailureList)}

Response(status, length, c) == [status |-> status, length |-> length, chain |-> c]

HonestJson(n) == ChainToJson(PeerPrefix("honest", n), <<>>)

\* The answers a peer gives, numbered: a failure; an honest chain of each
\* length below MaxPeerLen (the empty list too) with its length; a chain of
\* MaxPeerLen blocks in each flavour with its length; and the empty list and
\* the honest chain of one block, each reported with a length no chain has.
ResponseTable ==
    [k \in 1..Len(FailureList) |-> Response(FailureList[k], 0, <<>>)]
    \o [n \in 1..MaxPeerLen |-> Response("ok", n - 1, HonestJson(n - 1))]
    \o [k \in 1..Len(FlavourList) |->
           Response("ok", MaxPeerLen,
                    ChainToJson(PeerChain(FlavourList[k], MaxPeerLen), <<>>))]
    \o [n \in 1..2 |-> Response("ok", MaxPeerLen + 2, HonestJson(n - 1))]

ResponseIds == 1..Len(ResponseTable)

\* The answers numbered ks, in that order.
Answers(ks) == [i \in 1..Len(ks) |-> ResponseTable[ks[i]]]

\* ------------------------------------------------------- resolve_conflicts
\* Lines 210-220: the Block objects built from a peer's block data.
FromDict(block_data) ==
    [Block(block_data.index, Val(block_data.transactions),
           block_data.timestamp, block_data.previous_hash, block_data.nonce)
     EXCEPT !.hash = block_data.hash]

ChainObjects(data) == [i \in 1..Len(data) |-> FromDict(data[i])]

\* The loop's locals: max_length, new_chain (<<>> stands for None as well:
\* line 228 takes both for false), the peers contacted so far, and whether an
\* exception left the loop.
LoopStart(c) ==
    [max_length |-> Len(c), new_chain |-> <<>>, contacted |-> 0,
     raised |-> FALSE]

\* Lines 204-224: a response arrived.
OnResponse(st, r) ==
    IF r.status = "ok"
    THEN LET chain_objects == ChainObjects(r.chain)
         IN  IF r.length > st.max_length /\ is_chain_valid(chain_objects, <<>>)
             THEN [st EXCEPT !.max_length = r.length,
                             !.new_chain = chain_objects,
                             !.contacted = @ + 1]
             ELSE [st EXCEPT !.contacted = @ + 1]
    ELSE [st EXCEPT !.contacted = @ + 1]

\* The exception leaves resolve_conflicts instead of being caught.
OnExceptionPropagates(st) == [st EXCEPT !.contacted = @ + 1, !.raised = TRUE]

\* Lines 225-226: requests.get raised a RequestException.
OnException(st) == [st EXCEPT !.contacted = @ + 1]

Visit(st, r) ==
    IF r.status \in {"timeout", "connection_error"}
    THEN OnException(st)
    ELSE OnResponse(st, r)

RECURSIVE ResolveLoop(_, _, _)
ResolveLoop(st, rs, i) ==
    IF i > Len(rs) \/ st.raised THEN st
    ELSE ResolveLoop(Visit(st, rs[i]), rs, i + 1)

\* Line 228 without its test.
ReplacesAlways(st) == TRUE

\* Lines 228-232.
Replaces(st) == st.new_chain # <<>>

\* Lines 228-232 with "new_chain is not None" for the test of line 228:
\* new_chain was assigned exactly when max_length grew.
ResolvedChainIfAssigned(st, c) ==
    IF st.max_length > Len(c) THEN st.new_chain ELSE c

ResolvedChain(st, c) == IF Replaces(st) THEN st.new_chain ELSE c

\* ------------------------------------------------------------ request data
Threads == {"t1", "t2"}
Senders == {"Mining Reward", "A"}
Recipients == {"A", "B"}
Amounts == {-5, 0, 5}
Urls == {"http://p1", "p1", "http://p2", ""}

\* urlparse(address).netloc and .path for the addresses of Urls.
Netloc(address) ==
    CASE address = "http://p1" -> "p1"
      [] address = "http://p2" -> "p2"
      [] OTHER -> ""

Path(address) == IF address = "p1" THEN "p1" ELSE ""

Idle == [pc |-> "idle", block |-> Block(0, Ref(0), 0, NoHash, 0)]
NoResolve == [pc |-> "idle", st |-> LoopStart(<<>>), served |-> 0]

Pool == lists[current_transactions]

\* What the last request was and what it answered, with the chain and the
\* pending transactions it found.
Answer(op, result, index, rs, contacted) ==
    [op |-> op, result |-> result, index |-> index, chain0 |-> chain,
     pool0 |-> Pool, responses |-> rs, contacted |-> contacted]

Init ==
    /\ chain = <<create_genesis_block(1)>>
    /\ clock = 2
    /\ lists = << <<>> >>
    /\ current_transactions = 1
    /\ nodes = {}
    /\ miner = [t \in Threads |-> Idle]
    /\ resolver = NoResolve
    /\ accepted = {}
    /\ last = [op |-> "none", result |-> "", index |-> 0, chain0 |-> <<>>,
               pool0 |-> <<>>, responses |-> <<>>, contacted |-> 0]

NoAnswer ==
    [op |-> "none", result |-> "", index |-> 0, chain0 |-> <<>>,
     pool0 |-> <<>>, responses |-> <<>>, contacted |-> 0]

\* The server takes one request at a time: the answer of the last one has
\* left.
Quiet ==
    /\ last = NoAnswer
    /\ resolver.pc = "idle"
    /\ \A t \in Threads : miner[t].pc = "idle"

\* The answer is written to the client and the request is over.
Deliver ==
    /\ last # NoAnswer
    /\ last' = NoAnswer
    /\ UNCHANGED <<chain, lists, current_transactions, nodes, miner, resolver,
                   accepted, clock>>

\* ---------------------------------------------------------- add_transaction
\* The list after line 101 and the value line 102 returns.
add_transaction(sender, recipient, amount, t, id) ==
    [pool |-> Append(Pool, Transaction(sender, recipient, amount, t, id)),
     index |-> get_latest_block(chain).index + 1]

\* Lines 350-358 without the test of line 351.
TransactionErrorAnyAmount(sender, recipient, amount) ==
    IF sender = recipient
    THEN "Sender and recipient cannot be the same"
    ELSE IF sender # "Mining Reward" /\ get_balance(sender) < amount
    THEN "Insufficient balance"
    ELSE ""

\* POST /api/transactions, lines 338-371.
TransactionError(sender, recipient, amount) ==
    IF amount <= 0 THEN "Amount must be positive"
    ELSE IF sender = recipient
    THEN "Sender and recipient cannot be the same"
    ELSE IF sender # "Mining Reward" /\ get_balance(sender) < amount
    THEN "Insufficient balance"
    ELSE ""

\* Lines 360-361: the transaction is made and appended.
Accept(sender, recipient, amount, t) ==
    LET id == Cardinality(accepted) + 1
        added == add_transaction(sender, recipient, amount, t, id)
    IN  /\ Cardinality(accepted) < MaxTx
        /\ lists' = [lists EXCEPT ![current_transactions] = added.pool]
        /\ accepted' = accepted \cup {id}
        /\ clock' = t + 1
        /\ UNCHANGED <<chain, current_transactions, nodes, miner, resolver>>

api_transactions(sender, recipient, amount, t) ==
    LET error == TransactionError(sender, recipient, amount)
    IN  IF error # ""
        THEN /\ last' = Answer("submit", error, 0, <<>>, 0)
             /\ UNCHANGED <<chain, lists, current_transactions, nodes, miner,
                            resolver, accepted, clock>>
        ELSE /\ Accept(sender, recipient, amount, t)
             /\ last' = Answer("submit", "created",
                               get_latest_block(chain).index + 1, <<>>, 0)

Submit ==
    /\ Quiet
    /\ \E sender \in Senders, recipient \in Recipients, amount \in Amounts :
          api_transactions(sender, recipient, amount, clock)

\* ------------------------------------------------ mine_pending_transactions
\* Lines 107-122 without line 123: the pending list is not reset.
mine_pending_transactionsKeepsPending(mining_reward_address, t) ==
    LET reward == Transaction(None, mining_reward_address, mining_reward, t, 0)
        ls == [lists EXCEPT ![current_transactions] = Append(@, reward)]
        block == Block(Len(chain), Ref(current_transactions), t + 1,
                       get_latest_block(chain).hash, 0)
    IN  [chain |-> Append(chain, mine_block(block, ls)),
         lists |-> ls,
         current_transactions |-> current_transactions]

\* Lines 107-123 run without interruption: the chain, the list objects and
\* the pending list afterwards.
mine_pending_transactions(mining_reward_address, t) ==
    LET reward == Transaction(None, mining_reward_address, mining_reward, t, 0)
        ls == [lists EXCEPT ![current_transactions] = Append(@, reward)]
        block == Block(Len(chain), Ref(current_transactions), t + 1,
                       get_latest_block(chain).hash, 0)
    IN  [chain |-> Append(chain, mine_block(block, ls)),
         lists |-> Append(ls, <<>>),
         current_transactions |-> Len(ls) + 1]

\* Line 376 without its test.
NothingToMineNever(pending) == FALSE

\* Line 376: the route's answer when nothing is pending.
NothingToMine(pending) == pending = <<>>

\* POST /api/mine, lines 373-393.
api_mine(t) ==
    IF NothingToMine(Pool)
    THEN /\ last' = Answer("mine", "No transactions to mine", 0, <<>>, 0)
         /\ UNCHANGED <<chain, lists, current_transactions, nodes, miner,
                        resolver, accepted, clock>>
    ELSE LET m == mine_pending_transactions(node_identifier, t)
         IN  /\ Len(chain) < MaxChain
             /\ chain' = m.chain
             /\ lists' = m.lists
             /\ current_transactions' = m.current_transactions
             /\ clock' = t + 2
             /\ last' = Answer("mine", "New Block Forged", Len(chain), <<>>, 0)
             /\ UNCHANGED <<nodes, miner, resolver, accepted>>

Mine == Quiet /\ api_mine(clock)

\* ----------------------------------------------------------- /api/consensus
\* resolve_conflicts with "self.current_transactions = []" next to line 229.
resolve_conflictsDropsPending(ks) ==
    LET rs == ks
        st == ResolveLoop(LoopStart(chain), Answers(ks), 1)
    IN  /\ chain' = ResolvedChain(st, chain)
        /\ lists' = IF Replaces(st) THEN Append(lists, <<>>) ELSE lists
        /\ current_transactions' =
              IF Replaces(st) THEN Len(lists) + 1 ELSE current_transactions
        /\ last' = Answer("resolve",
                          IF st.raised THEN "error"
                          ELSE IF Replaces(st) THEN "replaced" ELSE "kept",
                          0, rs, st.contacted)
        /\ UNCHANGED <<nodes, miner, resolver, accepted, clock>>

\* resolve_conflicts, lines 194-232, with ks the numbers of the answers of
\* the peers in the order the loop visits them.
resolve_conflicts(ks) ==
    LET rs == ks
        st == ResolveLoop(LoopStart(chain), Answers(ks), 1)
    IN  /\ chain' = ResolvedChain(st, chain)
        /\ last' = Answer("resolve",
                          IF st.raised THEN "error"
                          ELSE IF Replaces(st) THEN "replaced" ELSE "kept",
                          0, rs, st.contacted)
        /\ UNCHANGED <<lists, current_transactions, nodes, miner, resolver,
                       accepted, clock>>

Resolve ==
    /\ Quiet
    /\ \E ks \in [1..Cardinality(nodes) -> ResponseIds] : resolve_conflicts(ks)

\* --------------------------------------------------------------- /api/nodes
\* Lines 184-192 without urlparse: the address is added as it was given.
register_nodeAsGiven(address) == nodes \cup {address}

\* register_node, lines 184-192: the peer set afterwards; "error" stands for
\* the ValueError.
register_node(address) ==
    IF Netloc(address) # "" THEN nodes \cup {Netloc(address)}
    ELSE IF Path(address) # "" THEN nodes \cup {Path(address)}
    ELSE {"error"}

\* POST /api/nodes with one address, lines 414-424; reachable is whether the
\* test request answered 200 and register_node was called. (The route's test
\* request fails for an address without a scheme; register_node is given
\* such addresses here as any other caller of the method may.)
api_nodes(address, reachable) ==
    /\ nodes' = IF reachable /\ register_node(address) # {"error"}
                THEN register_node(address) ELSE nodes
    /\ last' = Answer("register",
                      IF ~reachable THEN "failed"
                      ELSE IF register_node(address) = {"error"}
                      THEN "Invalid URL" ELSE "registered",
                      0, <<>>, 0)
    /\ UNCHANGED <<chain, lists, current_transactions, miner, resolver,
                   accepted, clock>>

Register ==
    /\ Quiet
    /\ \E address \in Urls, reachable \in BOOLEAN : api_nodes(address, reachable)

Next == Submit \/ Mine \/ Resolve \/ Register \/ Deliver

Spec == Init /\ [][Next]_vars

\* ------------------------------------------------------------ read requests
\* What a run of is_chain_valid leaves of the list it walks: the loop reads
\* the hash property (lines 56-61, which fill _hash when it is None) of each
\* block it visits, and of the block before it once the test of line 152
\* has passed; it stops at the first block that fails.
FirstInvalid(c, ls) ==
    IF is_chain_valid(c, ls) THEN Len(c) + 1
    ELSE CHOOSE i \in 2..Len(c) :
            /\ ~BlockValid(c, i, ls)
            /\ \A j \in 2..(i - 1) : BlockValid(c, j, ls)

HashesRead(c, ls) ==
    LET stop == FirstInvalid(c, ls)
        visited == {i \in 2..Len(c) : i <= stop}
    IN  visited
        \cup {i - 1 : i \in {j \in visited :
                        j < stop \/ c[j].hash = calculate_hash(c[j], ls)}}

AfterValidation(c, ls) ==
    [i \in 1..Len(c) |->
        IF i \in HashesRead(c, ls) THEN Cached(c[i], ls) ELSE c[i]]

BalanceAddresses == {"A", node_identifier}

\* GET /api/stats, lines 306-318: get_balance of the node and is_chain_valid
\* of its own chain.
api_stats ==
    /\ chain' = AfterValidation(chain, lists)
    /\ last' = Answer("stats",
                      IF is_chain_valid(chain, lists) THEN "valid"
                      ELSE "invalid",
                      get_balance(node_identifier), <<>>, 0)
    /\ UNCHANGED <<lists, current_transactions, nodes, miner, resolver,
                   accepted, clock>>

Stats == Quiet /\ api_stats

\* GET /api/balance/<address>, lines 458-465.
api_balance(address) ==
    /\ last' = Answer("balance", address, get_balance(address), <<>>, 0)
    /\ UNCHANGED <<chain, lists, current_transactions, nodes, miner, resolver,
                   accepted, clock>>

Balance == Quiet /\ \E address \in BalanceAddresses : api_balance(address)

NextRead ==
    Submit \/ Mine \/ Resolve \/ Register \/ Deliver \/ Stats \/ Balance

SpecRead == Init /\ [][NextRead]_vars

\* ------------------------------------------------------ a node without peers
\* The node serves POST /api/transactions and POST /api/mine only, one whole
\* request after the other, and accepts up to MaxNodeTx transactions.
AcceptNode(sender, recipient, amount, t) ==
    LET id == Cardinality(accepted) + 1
        added == add_transaction(sender, recipient, amount, t, id)
    IN  /\ Cardinality(accepted) < MaxNodeTx
        /\ lists' = [lists EXCEPT ![current_transactions] = added.pool]
        /\ accepted' = accepted \cup {id}
        /\ clock' = t + 1
        /\ UNCHANGED <<chain, current_transactions, nodes, miner, resolver>>

api_transactionsNode(sender, recipient, amount, t) ==
    LET error == TransactionError(sender, recipient, amount)
    IN  IF error # ""
        THEN /\ last' = Answer("submit", error, 0, <<>>, 0)
             /\ UNCHANGED <<chain, lists, current_transactions, nodes, miner,
                            resolver, accepted, clock>>
        ELSE /\ AcceptNode(sender, recipient, amount, t)
             /\ last' = Answer("submit", "created",
                               get_latest_block(chain).index + 1, <<>>, 0)

SubmitNode ==
    /\ Quiet
    /\ \E sender \in Senders, recipient \in Recipients, amount \in Amounts :
          api_transactionsNode(sender, recipient, amount, clock)

NextNode == SubmitNode \/ Mine \/ Deliver

SpecNode == Init /\ [][NextNode]_vars

\* ----------------------------------------------------------- a second node
\* Another Blockchain object, built on its own: its list objects and its
\* Transaction objects are not those of this node (other references, other
\* identities). It is given the requests this node's chain records: each
\* block's transactions but the last are the submissions before the mine
\* request, in order; the last is the reward, made at its timestamp; the
\* block was made at the block's timestamp.
TwinStart ==
    [chain |-> <<create_genesis_block(1)>>, lists |-> << <<>>, <<>> >>,
     current_transactions |-> 2]

\* add_transaction, lines 100-101, on the second node.
TwinSubmit(L, tx) ==
    [L EXCEPT !.lists[L.current_transactions] =
        Append(@, Transaction(tx.sender, tx.recipient, tx.amount,
                              tx.timestamp, tx.id + MaxTx))]

RECURSIVE TwinSubmitAll(_, _)
TwinSubmitAll(L, txs) ==
    IF txs = <<>> THEN L
    ELSE TwinSubmitAll(TwinSubmit(L, Head(txs)), Tail(txs))

\* mine_pending_transactions, lines 107-123, on the second node.
TwinMine(L, mining_reward_address, t, block_time) ==
    LET reward == Transaction(None, mining_reward_address, mining_reward, t, 0)
        ls == [L.lists EXCEPT ![L.current_transactions] = Append(@, reward)]
        block == Block(Len(L.chain), Ref(L.current_transactions), block_time,
                       get_latest_block(L.chain).hash, 0)
    IN  [chain |-> Append(L.chain, mine_block(block, ls)),
         lists |-> Append(ls, <<>>),
         current_transactions |-> Len(ls) + 1]

\* The second node after the requests behind the first n blocks of c.
RECURSIVE TwinReplay(_, _, _)
TwinReplay(c, ls, n) ==
    IF n <= 1 THEN TwinStart
    ELSE LET txs == TxList(c[n], ls)
             k == Len(txs)
         IN  TwinMine(TwinSubmitAll(TwinReplay(c, ls, n - 1),
                                    SubSeq(txs, 1, k - 1)),
                      txs[k].recipient, txs[k].timestamp, c[n].timestamp)

\* ------------------------------------------------------ concurrent requests
\* The server runs each request in a thread of its own and the Blockchain
\* object takes no lock: a request's statements interleave with those of the
\* others. A step is one statement of mine_pending_transactions, one turn of
\* the loop of mine_block, or a whole request that touches the shared lists
\* once.
Running(th, pc) == miner[th].pc = pc
Goto(th, pc, b) == miner' = [miner EXCEPT ![th] = [pc |-> pc, block |-> b]]

\* POST /api/transactions while other requests run.
SubmitC ==
    \E sender \in Senders, recipient \in Recipients, amount \in Amounts :
       /\ TransactionError(sender, recipient, amount) = ""
       /\ Accept(sender, recipient, amount, clock)
       /\ UNCHANGED last

\* Line 376.
MineCheck(th) ==
    /\ Running(th, "idle")
    /\ ~NothingToMine(Pool)
    /\ Len(chain) < MaxChain
    /\ Goto(th, "reward", miner[th].block)
    /\ UNCHANGED <<chain, lists, current_transactions, nodes, resolver,
                   accepted, last, clock>>

\* Lines 107-108.
MineReward(th) ==
    /\ Running(th, "reward")
    /\ lists' = [lists EXCEPT ![current_transactions] =
                    Append(@, Transaction(None, node_identifier,
                                          mining_reward, clock, 0))]
    /\ clock' = clock + 1
    /\ Goto(th, "create", miner[th].block)
    /\ UNCHANGED <<chain, current_transactions, nodes, resolver, accepted,
                   last>>

\* Lines 111-116.
MineCreate(th) ==
    /\ Running(th, "create")
    /\ Goto(th, "loop", Block(Len(chain), Ref(current_transactions), clock,
                               get_latest_block(chain).hash, 0))
    /\ clock' = clock + 1
    /\ UNCHANGED <<chain, lists, current_transactions, nodes, resolver,
                   accepted, last>>

\* Lines 134-136: one test of the loop and, when it fails, one turn.
MineLoop(th) ==
    LET b == miner[th].block
    IN  /\ Running(th, "loop")
        /\ IF HasPrefix(HashOf(b, lists), difficulty)
           THEN Goto(th, "append", Cached(b, lists))
           ELSE Goto(th, "loop", [b EXCEPT !.nonce = @ + 1, !.hash = NoHash])
        /\ UNCHANGED <<chain, lists, current_transactions, nodes, resolver,
                       accepted, last, clock>>

\* Line 122.
MineAppend(th) ==
    /\ Running(th, "append")
    /\ chain' = Append(chain, miner[th].block)
    /\ Goto(th, "clear", miner[th].block)
    /\ UNCHANGED <<lists, current_transactions, nodes, resolver, accepted,
                   last, clock>>

\* Line 123.
MineClear(th) ==
    /\ Running(th, "clear")
    /\ lists' = Append(lists, <<>>)
    /\ current_transactions' = Len(lists) + 1
    /\ Goto(th, "idle", Idle.block)
    /\ UNCHANGED <<chain, nodes, resolver, accepted, last, clock>>

\* The answers of peers that run this code unaltered and report the length of
\* their chain, and one failure. The concurrent specifications take the peers'
\* answers from this set only: they are used to find interleavings that break
\* a claim, and every behaviour with such peers is a behaviour of the node.
HonestResponses ==
    {Response("timeout", 0, <<>>)}
    \cup {Response("ok", n, HonestJson(n)) : n \in 1..MaxPeerLen}

\* Lines 196-226: max_length is read and the peers are asked.
ResolveStart ==
    /\ resolver.pc = "idle"
    /\ resolver.served < MaxResolves
    /\ \E rs \in [1..Cardinality(nodes) -> HonestResponses] :
          resolver' = [resolver EXCEPT
                          !.pc = "fetched",
                          !.st = ResolveLoop(LoopStart(chain), rs, 1)]
    /\ UNCHANGED <<chain, lists, current_transactions, nodes, miner, accepted,
                   last, clock>>

\* Lines 228-232.
ResolveFinish ==
    /\ resolver.pc = "fetched"
    /\ chain' = ResolvedChain(resolver.st, chain)
    /\ resolver' = [NoResolve EXCEPT !.served = resolver.served + 1]
    /\ UNCHANGED <<lists, current_transactions, nodes, miner, accepted, last, clock>>

RegisterC ==
    /\ \E address \in {"http://p1"} :
          /\ register_node(address) # {"error"}
          /\ nodes' = register_node(address)
    /\ UNCHANGED <<chain, lists, current_transactions, miner, resolver,
                   accepted, last, clock>>

MineStep(th) ==
    \/ MineCheck(th)
    \/ MineReward(th)
    \/ MineCreate(th)
    \/ MineLoop(th)
    \/ MineAppend(th)
    \/ MineClear(th)

NextLocal == SubmitC \/ \E th \in Threads : MineStep(th)

SpecLocal == Init /\ [][NextLocal]_vars

NextConc ==
    \/ SubmitC
    \/ \E th \in Threads : MineStep(th)
    \/ ResolveStart
    \/ ResolveFinish
    \/ RegisterC

SpecConc == Init /\ [][NextConc]_vars

\* ------------------------------------------------------------------ claims
IndexContinuity(c, i) == c[i].index = c[i - 1].index + 1
Linked(c, i) == c[i].previous_hash = c[i - 1].hash
HashIsDigest(c, i, ls) == c[i].hash = calculate_hash(c[i], ls)
MeetsDifficulty(c, i) == HasPrefix(c[i].hash, difficulty)

IsOk(r) == r.status = "ok"
Resolved == last.op = "resolve"
\* The answers the peers gave to the last request, in the order visited.
Asked == Answers(last.responses)

\* C1: after any sequence of whole submit, mine and consensus requests, every
\* adjacent pair of blocks of the chain has consecutive indices, is linked by
\* previous_hash, and the later block's stored hash is the digest of its
\* fields and meets the difficulty.
C1_ChainInvariants ==
    \A i \in 2..Len(chain) :
        /\ IndexContinuity(chain, i)
        /\ Linked(chain, i)
        /\ HashIsDigest(chain, i, lists)
        /\ MeetsDifficulty(chain, i)

\* C2: a consensus resolution changes the chain only to a valid chain of
\* strictly more blocks, so the number of blocks never decreases across it.
C2_ReplacedOnlyByLongerValid ==
    Resolved =>
        /\ Len(chain) >= Len(last.chain0)
        /\ chain # last.chain0 =>
              /\ Len(chain) > Len(last.chain0)
              /\ is_chain_valid(chain, lists)

\* C3: under any interleaving of submit, mine and consensus requests no two
\* blocks of the chain have the same index and every block's previous_hash is
\* the hash of the block before it.
C3_MutuallyExclusive ==
    /\ \A i, j \in 1..Len(chain) : i # j => chain[i].index # chain[j].index
    /\ \A i \in 2..Len(chain) : Linked(chain, i)

\* C4: a mine request appends its sealed block only when the chain's last
\* block is still the one the candidate was built on.
C4_StaleBlockDiscarded ==
    [][\A th \in Threads :
          (miner[th].pc = "append" /\ miner'[th].pc = "clear"
           /\ chain' # chain)
          => /\ miner[th].block.previous_hash = get_latest_block(chain).hash
             /\ miner[th].block.index = Len(chain)]_vars

\* C5: with submit and mine requests only, once no mine request is running
\* every accepted transaction is in the pending list or in exactly one block,
\* and no block holds a transaction that was submitted after the mine request
\* that sealed it had started (after its reward transaction).
Places(id) ==
    {0 : k \in {k \in 1..Len(Pool) : Pool[k].id = id}}
    \cup {i \in 1..Len(chain) :
            \E k \in 1..Len(TxList(chain[i], lists)) :
                TxList(chain[i], lists)[k].id = id}

NoLateTransaction(txs) ==
    \A j, k \in 1..Len(txs) :
        (j < k /\ txs[j].sender = None) => txs[k].id \notin accepted

C5_TransactionsConserved ==
    /\ (\A th \in Threads : miner[th].pc = "idle")
       => \A id \in accepted : Cardinality(Places(id)) = 1
    /\ \A i \in 1..Len(chain) : NoLateTransaction(TxList(chain[i], lists))

\* C6: the stored hash of every block of the chain, the first one included,
\* is the digest of the block's index, transactions, timestamp, previous_hash
\* and nonce.
C6_StoredHashIsDigest ==
    \A i \in 1..Len(chain) : HashIsDigest(chain, i, lists)

\* C7: when some peer answered with a valid chain of more blocks than the
\* local one, the resolution answers "replaced" and the chain is the first
\* visited among the longest valid chains the peers answered with.
Qualifies(r, c0) ==
    /\ IsOk(r)
    /\ Len(r.chain) > Len(c0)
    /\ is_chain_valid(ChainObjects(r.chain), <<>>)

C7_LongestValidFirstWins ==
    LET rs == Asked
        Q == {i \in 1..Len(rs) : Qualifies(rs[i], last.chain0)}
        Longest == {i \in Q : \A j \in Q : Len(rs[j].chain) <= Len(rs[i].chain)}
    IN  (Resolved /\ Q # {}) =>
            /\ last.result = "replaced"
            /\ \E i \in Longest :
                  /\ \A j \in Longest : i <= j
                  /\ chain = ChainObjects(rs[i].chain)

\* C8: a resolution in which fetches fail ends "replaced" or "kept", has
\* contacted every peer, and leaves the chain it would have left had the
\* failing peers not been in the peer set.
C8_FailedPeersSkipped ==
    LET rs == Asked
    IN  (Resolved /\ \E i \in 1..Len(rs) : ~IsOk(rs[i])) =>
            /\ last.result \in {"replaced", "kept"}
            /\ last.contacted = Len(rs)
            /\ chain = ResolvedChain(
                          ResolveLoop(LoopStart(last.chain0),
                                      SelectSeq(rs, IsOk), 1),
                          last.chain0)

C8_Witness ==
    /\ Resolved
    /\ Len(Asked) = 2
    /\ Asked[1].status = "timeout"
    /\ IsOk(Asked[2])
    /\ last.result = "replaced"
    /\ chain = ChainObjects(Asked[2].chain)
    /\ chain # last.chain0

\* C9: a resolution in which no peer is reachable (no peer registered, or
\* every fetch failed) leaves the chain as it was and answers "kept".
C9_NoReachablePeerKeepsChain ==
    (Resolved /\ \A i \in 1..Len(Asked) : ~IsOk(Asked[i]))
    => /\ chain = last.chain0
       /\ last.result = "kept"

C9_Witness ==
    /\ Resolved
    /\ Len(Asked) = 2
    /\ \A i \in 1..2 : Asked[i].status \in Failures
    /\ Asked[1].status # Asked[2].status
    /\ chain = last.chain0
    /\ last.result = "kept"

\* C10: a mine request that finds no pending transaction answers "No
\* transactions to mine" and leaves the chain and the pending list as they
\* were: no block is appended.
C10_EmptyPoolMineFails ==
    (last.op = "mine" /\ last.pool0 = <<>>)
    => /\ last.result = "No transactions to mine"
       /\ chain = last.chain0
       /\ Pool = <<>>

C10_Witness ==
    /\ last.op = "mine"
    /\ last.pool0 = <<>>
    /\ Len(chain) > 1
    /\ last.result = "No transactions to mine"

\* C11: a mine request that finds chain C and a non-empty pending list P
\* appends exactly one block: its index is the number of blocks of C, its
\* previous_hash is the hash of the last block of C, its transactions are P
\* in order followed by one reward transaction (sender None, recipient the
\* node, amount mining_reward), and its hash meets the difficulty; afterwards
\* the pending list is empty.
Mined == last.op = "mine" /\ last.result = "New Block Forged"

C11_MineAppendsOneBlock ==
    Mined =>
        LET n == Len(last.chain0)
            b == chain[Len(chain)]
            txs == TxList(b, lists)
        IN  /\ last.pool0 # <<>>
            /\ Len(chain) = n + 1
            /\ SubSeq(chain, 1, n) = last.chain0
            /\ b.index = n
            /\ b.previous_hash = last.chain0[n].hash
            /\ Len(txs) = Len(last.pool0) + 1
            /\ SubSeq(txs, 1, Len(last.pool0)) = last.pool0
            /\ txs[Len(txs)].sender = None
            /\ txs[Len(txs)].recipient = node_identifier
            /\ txs[Len(txs)].amount = mining_reward
            /\ HasPrefix(b.hash, difficulty)
            /\ Pool = <<>>

C11_Witness ==
    /\ Mined
    /\ Len(last.pool0) = 2
    /\ last.pool0[1].recipient # last.pool0[2].recipient
    /\ Len(chain) = Len(last.chain0) + 1
    /\ Pool = <<>>

\* C12: an accepted submission appends exactly its transaction at the end of
\* the pending list, leaves the chain as it was, and answers with the number
\* of blocks of the chain, in every reachable state, those after a consensus
\* replacement included.
Created == last.op = "submit" /\ last.result = "created"

C12_SubmitReturnsChainLength ==
    Created =>
        /\ chain = last.chain0
        /\ Len(Pool) = Len(last.pool0) + 1
        /\ SubSeq(Pool, 1, Len(last.pool0)) = last.pool0
        /\ last.index = Len(last.chain0)

\* C13: a submission whose amount is zero or negative is answered "Amount
\* must be positive" and leaves the pending list and the chain as they were.
C13_NonPositiveAmountRejected ==
    [][\A sender \in Senders, recipient \in Recipients, amount \in Amounts :
          (Quiet /\ amount <= 0
           /\ api_transactions(sender, recipient, amount, clock))
          => /\ last'.result = "Amount must be positive"
             /\ chain' = chain
             /\ lists' = lists
             /\ current_transactions' = current_transactions]_vars

C13_Witness ==
    /\ last.op = "submit"
    /\ last.result = "Amount must be positive"
    /\ last.pool0 # <<>>
    /\ Pool = last.pool0
    /\ chain = last.chain0

\* C14: in every reachable state the balance of every address is the sum of
\* the amounts of the transactions in blocks of the chain that it receives
\* minus the sum of those it sends; pending transactions count for nothing,
\* so a submission changes no balance, and after a mine request the node's
\* balance has grown by the mining reward.
Addresses == {"A", "B", "Mining Reward", None, node_identifier, "peer"}

RECURSIVE SealedTxs(_, _)
SealedTxs(c, ls) ==
    IF c = <<>> THEN <<>> ELSE TxList(Head(c), ls) \o SealedTxs(Tail(c), ls)

Net(txs, a) ==
    LET To(tx) == tx.recipient = a
        From(tx) == tx.sender = a
    IN  SumAmounts(SelectSeq(txs, To)) - SumAmounts(SelectSeq(txs, From))

C14_BalanceIsSealedNet ==
    /\ \A a \in Addresses : get_balance(a) = Net(SealedTxs(chain, lists), a)
    /\ Created =>
          \A a \in Addresses :
              get_balance(a) = Net(SealedTxs(last.chain0, lists), a)
    /\ Mined =>
          get_balance(node_identifier) =
              Net(SealedTxs(last.chain0, lists), node_identifier)
              + Net(last.pool0, node_identifier) + mining_reward

C14_Witness ==
    /\ Created
    /\ get_balance("A") > 0
    /\ get_balance(node_identifier) = mining_reward
    /\ \E k \in 1..Len(Pool) : Pool[k].sender = "A"

\* C15: is_chain_valid answers true exactly when every block after the first
\* has the index of its predecessor plus one, is linked to it by
\* previous_hash, stores the digest of its fields as its hash, and meets the
\* difficulty; the first block is under no test, so a chain of one block is
\* valid whatever its hash.
FourInvariants(c, ls) ==
    \A i \in 2..Len(c) :
        /\ IndexContinuity(c, i)
        /\ Linked(c, i)
        /\ HashIsDigest(c, i, ls)
        /\ MeetsDifficulty(c, i)

C15_ValidIffInvariants ==
    /\ is_chain_valid(chain, lists) <=> FourInvariants(chain, lists)
    /\ Len(chain) = 1 => is_chain_valid(chain, lists)

\* C16: in a chain that is_chain_valid accepts, giving one block after the
\* first another stored hash, another previous_hash, another nonce, or
\* another amount in one of its transactions makes is_chain_valid answer
\* false.
OtherHashes(c) ==
    {c[j].hash : j \in 1..Len(c)}
    \cup {Zeros(0), Zeros(1), Zeros(difficulty), Zeros(difficulty + 1)}

\* The chain c with block i replaced by b, its transactions held by value.
WithBlock(c, i, b, ls) ==
    [c EXCEPT ![i] = [b EXCEPT !.transactions = Val(TxList(b, ls))]]

WithAmount(c, i, k, amount, ls) ==
    [c EXCEPT ![i].transactions =
        Val([TxList(c[i], ls) EXCEPT ![k].amount = amount])]

Tampered(c, ls) ==
    UNION {
        {WithBlock(c, i, [c[i] EXCEPT !.hash = h], ls) :
            h \in OtherHashes(c) \ {c[i].hash}}
        \cup {WithBlock(c, i, [c[i] EXCEPT !.previous_hash = h], ls) :
                h \in OtherHashes(c) \ {c[i].previous_hash}}
        \cup {WithBlock(c, i, [c[i] EXCEPT !.nonce = n], ls) :
                n \in (0..(c[i].nonce + 2)) \ {c[i].nonce}}
        \cup UNION {
              {WithAmount(c, i, k, amount, ls) :
                  amount \in {0, 1, TxList(c[i], ls)[k].amount + 1}
                             \ {TxList(c[i], ls)[k].amount}} :
              k \in 1..Len(TxList(c[i], ls))}
        : i \in 2..Len(c)}

C16_TamperingDetected ==
    is_chain_valid(chain, lists) =>
        \A c \in Tampered(chain, lists) : ~is_chain_valid(c, lists)

C16_Witness ==
    /\ Len(chain) = 3
    /\ is_chain_valid(chain, lists)
    /\ chain[2].transactions.ref = 0
    /\ chain[3].transactions.ref > 0
    /\ Cardinality(Tampered(chain, lists)) > 10

\* C17: the chain holds at least one block in every reachable state, whatever
\* the peers answer (an empty list of blocks too), so get_latest_block always
\* has a block to return.
C17_ChainNeverEmpty == Len(chain) >= 1

C17_Witness ==
    /\ Resolved
    /\ \E i \in 1..Len(Asked) :
          /\ IsOk(Asked[i])
          /\ Asked[i].chain = <<>>
          /\ Asked[i].length > Len(last.chain0)
    /\ Len(chain) >= 1

\* C18: a second node started from the same genesis block and given the same
\* submit and mine requests, with the same arguments and timestamps, holds a
\* chain whose blocks have, one by one, the hashes and the nonces of this
\* node's blocks, after every request.
LocalOnly ==
    /\ chain[1] = create_genesis_block(1)
    /\ \A i \in 2..Len(chain) : chain[i].transactions.ref > 0

Twin == TwinSubmitAll(TwinReplay(chain, lists, Len(chain)), Pool)

C18_SameRequestsSameHashes ==
    LocalOnly =>
        /\ Len(Twin.chain) = Len(chain)
        /\ \A i \in 1..Len(chain) :
              /\ HashOf(Twin.chain[i], Twin.lists) = HashOf(chain[i], lists)
              /\ Twin.chain[i].nonce = chain[i].nonce

C18_Witness ==
    /\ LocalOnly
    /\ Len(chain) = 3
    /\ Len(TxList(chain[2], lists)) >= 2
    /\ Len(TxList(chain[3], lists)) >= 2
    /\ Twin.chain[3].transactions # chain[3].transactions
    /\ TxList(Twin.chain[3], Twin.lists) # TxList(chain[3], lists)
    /\ Twin.chain[3].hash = chain[3].hash

\* C19: registering an address whose peer name is already in the peer set
\* leaves the set as it was; registering an address that has neither a host
\* nor a path is answered "Invalid URL" and leaves the set as it was; a
\* registration adds at most one name; and a consensus resolution leaves the
\* peer set as it was.
Canonical(address) ==
    IF Netloc(address) # "" THEN Netloc(address) ELSE Path(address)

C19_RegisterIdempotent ==
    [][/\ \A address \in Urls, reachable \in BOOLEAN :
             (Quiet /\ api_nodes(address, reachable)) =>
                 /\ Canonical(address) \in nodes => nodes' = nodes
                 /\ Canonical(address) = "" =>
                       /\ nodes' = nodes
                       /\ reachable => last'.result = "Invalid URL"
                 /\ nodes' \subseteq nodes \cup {Canonical(address)}
       /\ last'.op = "resolve" => nodes' = nodes]_vars

C19_Witness ==
    /\ last.op = "register"
    /\ last.result = "Invalid URL"
    /\ nodes = {"p1", "p2"}

\* C20: across every step of a submit or a mine request the chain before the
\* step is a prefix of the chain after it, and every block it held has the
\* fields, the transactions and the hash it had.
SameBlock(b, ls, c, ms) ==
    /\ b = c
    /\ TxList(b, ls) = TxList(c, ms)
    /\ HashOf(b, ls) = HashOf(c, ms)

C20_AppendOnly ==
    [][/\ Len(chain') >= Len(chain)
       /\ \A i \in 1..Len(chain) :
             SameBlock(chain[i], lists, chain'[i], lists')]_vars

\* C21: on a node without peers whose transactions all come through POST
\* /api/transactions, which refuses a sender whose balance is below the
\* amount, no address other than the reward senders (None, "Mining Reward")
\* has a negative balance after any sequence of submissions and mine
\* requests.
C21_NoNegativeBalance ==
    \A a \in Addresses \ {None, "Mining Reward"} : get_balance(a) >= 0

\* C22: a request that runs is_chain_valid and get_balance leaves the chain,
\* the pending list and the peer set as they were, and a consensus
\* resolution, whether it replaces the chain or not, leaves the pending list
\* and the peer set as they were.
C22_ReadsAndResolveFrame ==
    [][/\ last'.op \in {"stats", "balance"} =>
             /\ chain' = chain
             /\ \A i \in 1..Len(chain) :
                   TxList(chain'[i], lists') = TxList(chain[i], lists)
             /\ Pool' = Pool
             /\ nodes' = nodes
       /\ last'.op = "resolve" =>
             /\ Pool' = Pool
             /\ nodes' = nodes]_vars

C22_Witness ==
    /\ Resolved
    /\ last.result = "replaced"
    /\ chain # last.chain0
    /\ Pool # <<>>
    /\ Pool = last.pool0
    /\ Cardinality(nodes) = 2

====
